---- MODULE Spec2Model ----
(***************************************************************************)
(* Model of the epoch driver of src/train.py (class ecgTrainer):           *)
(* construction with optional resume, train_epoch, checkpoint save, val    *)
(* and the loop over epochs, together with the checkpoint directory and    *)
(* the scalar log they write.  One step of the model is one batch of a     *)
(* pass, the end of a pass, one save, or one construction.                 *)
(*                                                                         *)
(* Abstractions: tensors, losses and accuracies carry no value; the model  *)
(* and optimizer state (state_dict) is the number of optimizer steps that  *)
(* produced it.  A file path is the file name without the constant         *)
(* directory prefix and the constant ".pth" suffix.                        *)
(***************************************************************************)
EXTENDS Integers, Sequences, FiniteSets, TLC

\* ---------------------------------------------------------------- bounds
MaxRuns == 2       \* constructions of a trainer over one experiment directory
MaxEpochs == 2     \* largest configured "epochs"
MaxBatches == 2    \* largest loader length

\* ------------------------------------------------------ program constants
NameWidth == 8     \* "{:0>8}.pth"
PrintEvery == 100  \* (i + 1) % 100 == 0

VARIABLES
    pc,              \* where the process is: new, constructed, train, save,
                     \* val, incr, done, crashed
    raised,          \* which pass the propagating exception came from
    runs,            \* number of trainers constructed so far
    config,          \* self.config of the current trainer
    training_epoch,  \* self.training_epoch
    total_iter,      \* self.total_iter
    epochs,          \* self.epochs
    first_epoch,     \* start of range(self.training_epoch, self.epochs)
    epoch,           \* the loop variable of loop()
    i,               \* batches consumed in the running pass
    printed,         \* progress lines printed in the running train pass
    pass_start,      \* total_iter when the running train pass began
    state_dict,      \* model/optimizer state: optimizer steps applied
    files,           \* checkpoint directory: file name -> stored contents
    saves,           \* the calls of save_checkpoint, in order
    writer           \* the scalar log: add_scalar calls, in order

vars == <<pc, raised, runs, config, training_epoch, total_iter, epochs,
          first_epoch, epoch, i, printed, pass_start, state_dict, files,
          saves, writer>>

\* ------------------------------------------------------------ formatting
DigitChar(d) == <<"0", "1", "2", "3", "4", "5", "6", "7", "8", "9">>[d + 1]

RECURSIVE Str(_)
\* str(n) for a non-negative integer
Str(n) == IF n < 10 THEN <<DigitChar(n)>>
          ELSE Str(n \div 10) \o <<DigitChar(n % 10)>>

RECURSIVE PadLeft(_, _)
\* fill "0", align ">", minimum width w; longer strings are left alone
PadLeft(s, w) == IF Len(s) >= w THEN s ELSE PadLeft(<<"0">> \o s, w)

\* "{:0>8}.pth".format(epoch)
FormatName(e) == PadLeft(Str(e), NameWidth)

\* ----------------------------------------------------------- config values
Absent == [t |-> "absent"]
PyFalse == [t |-> "bool", b |-> FALSE]
PyNone == [t |-> "none"]
PyStr(s) == [t |-> "str", s |-> s]

\* self.config.get("model_path", False)
ConfigGet(cfg) == IF cfg.model_path.t = "absent" THEN PyFalse ELSE cfg.model_path

\* Python truth value of a config value
Truthy(v) == CASE v.t = "bool" -> v.b
               [] v.t = "none" -> FALSE
               [] v.t = "str"  -> Len(v.s) > 0

\* the values of model_path the experiment is run with: no resume while the
\* checkpoint directory is empty, a checkpoint of the directory afterwards
ModelPaths == IF DOMAIN files = {}
              THEN {Absent, PyFalse, PyNone, PyStr(<<>>)}
              ELSE {PyStr(p) : p \in DOMAIN files}

Configs == [epochs : 0..MaxEpochs, model_path : ModelPaths,
            train_len : 0..MaxBatches, val_len : 0..MaxBatches]

\* ------------------------------------------------------------ checkpoints
\* utils.load_checkpoint: returns (epoch, total_iter) as stored
load_checkpoint(path) == <<files[path].epoch, files[path].total_iter>>

\* utils.save_checkpoint: writes the state to the path, replacing the file
save_checkpoint(state, path) == (path :> state) @@ files

Scalar(tag, step) == [tag |-> tag, step |-> step, run |-> runs]

\* ------------------------------------------------------------------ Init
Init ==
    /\ pc = "new"
    /\ raised = "none"
    /\ runs = 0
    /\ config = [epochs |-> 0, model_path |-> Absent, train_len |-> 0, val_len |-> 0]
    /\ training_epoch = 0
    /\ total_iter = 0
    /\ epochs = 0
    /\ first_epoch = 0
    /\ epoch = 0
    /\ i = 0
    /\ printed = 0
    /\ pass_start = 0
    /\ state_dict = 0
    /\ files = <<>>
    /\ saves = <<>>
    /\ writer = <<>>

\* --------------------------------------------------------------- actions
\* __init__ with the pair returned by load_checkpoint unpacked in the wrong order
ConstructSwapped ==
    /\ pc \in {"new", "done", "crashed"}
    /\ runs < MaxRuns
    /\ \E cfg \in Configs :
        /\ config' = cfg
        /\ epochs' = cfg.epochs
        /\ LET pretrained_path == ConfigGet(cfg) IN
           IF Truthy(pretrained_path)
           THEN /\ training_epoch' = load_checkpoint(pretrained_path.s)[2]
                /\ total_iter' = load_checkpoint(pretrained_path.s)[1]
                /\ state_dict' = files[pretrained_path.s].state_dict
           ELSE /\ training_epoch' = 0
                /\ total_iter' = 0
                /\ state_dict' = 0
    /\ runs' = runs + 1
    /\ pc' = "constructed"
    /\ raised' = "none"
    /\ UNCHANGED <<first_epoch, epoch, i, printed, pass_start, files, saves, writer>>

\* ecgTrainer.__init__
Construct ==
    /\ pc \in {"new", "done", "crashed"}
    /\ runs < MaxRuns
    /\ \E cfg \in Configs :
        /\ config' = cfg
        /\ epochs' = cfg.epochs
        /\ LET pretrained_path == ConfigGet(cfg) IN
           IF Truthy(pretrained_path)
           THEN /\ training_epoch' = load_checkpoint(pretrained_path.s)[1]
                /\ total_iter' = load_checkpoint(pretrained_path.s)[2]
                /\ state_dict' = files[pretrained_path.s].state_dict
           ELSE /\ training_epoch' = 0
                /\ total_iter' = 0
                /\ state_dict' = 0
    /\ runs' = runs + 1
    /\ pc' = "constructed"
    /\ raised' = "none"
    /\ UNCHANGED <<first_epoch, epoch, i, printed, pass_start, files, saves, writer>>

\* loop(): range(self.training_epoch, self.epochs) and its first iteration
LoopStart ==
    /\ pc = "constructed"
    /\ first_epoch' = training_epoch
    /\ IF training_epoch < epochs
       THEN /\ epoch' = training_epoch
            /\ pc' = "train"
            /\ i' = 0
            /\ printed' = 0
            /\ pass_start' = total_iter
       ELSE /\ pc' = "done"
            /\ UNCHANGED <<epoch, i, printed, pass_start>>
    /\ UNCHANGED <<raised, runs, config, training_epoch, total_iter, epochs,
                   state_dict, files, saves, writer>>

\* train_epoch() with the increment of total_iter inside the progress-line if
TrainBatchCountsPrinted ==
    /\ pc = "train"
    /\ i < config.train_len
    /\ state_dict' = state_dict + 1
    /\ printed' = IF (i + 1) % PrintEvery = 0 THEN printed + 1 ELSE printed
    /\ writer' = Append(writer, Scalar("Train loss (iterations)", total_iter))
    /\ total_iter' = IF (i + 1) % PrintEvery = 0 THEN total_iter + 1 ELSE total_iter
    /\ i' = i + 1
    /\ UNCHANGED <<pc, raised, runs, config, training_epoch, epochs,
                   first_epoch, epoch, pass_start, files, saves>>

\* train_epoch() with total_iter set from the index of the batch in the pass
TrainBatchPassIndex ==
    /\ pc = "train"
    /\ i < config.train_len
    /\ state_dict' = state_dict + 1
    /\ printed' = IF (i + 1) % PrintEvery = 0 THEN printed + 1 ELSE printed
    /\ writer' = Append(writer, Scalar("Train loss (iterations)", total_iter))
    /\ total_iter' = i + 1
    /\ i' = i + 1
    /\ UNCHANGED <<pc, raised, runs, config, training_epoch, epochs,
                   first_epoch, epoch, pass_start, files, saves>>

\* train_epoch(): one batch of the for loop
TrainBatch ==
    /\ pc = "train"
    /\ i < config.train_len
    /\ state_dict' = state_dict + 1
    /\ printed' = IF (i + 1) % PrintEvery = 0 THEN printed + 1 ELSE printed
    /\ writer' = Append(writer, Scalar("Train loss (iterations)", total_iter))
    /\ total_iter' = total_iter + 1
    /\ i' = i + 1
    /\ UNCHANGED <<pc, raised, runs, config, training_epoch, epochs,
                   first_epoch, epoch, pass_start, files, saves>>

\* loop() with the save in a finally clause around train_epoch()
TrainRaiseSavesFirst ==
    /\ pc = "train"
    /\ i < config.train_len
    /\ files' = (FormatName(epoch) :>
                    [state_dict |-> state_dict, epoch |-> epoch,
                     total_iter |-> total_iter]) @@ files
    /\ saves' = Append(saves, [run |-> runs, path |-> FormatName(epoch)])
    /\ pc' = "crashed"
    /\ raised' = "train"
    /\ UNCHANGED <<runs, config, training_epoch, total_iter, epochs,
                   first_epoch, epoch, i, printed, pass_start, state_dict,
                   writer>>

\* train_epoch(): the train iterator raises instead of giving the next batch
TrainRaise ==
    /\ pc = "train"
    /\ i < config.train_len
    /\ pc' = "crashed"
    /\ raised' = "train"
    /\ UNCHANGED <<runs, config, training_epoch, total_iter, epochs,
                   first_epoch, epoch, i, printed, pass_start, state_dict,
                   files, saves, writer>>

\* train_epoch(): after the for loop
TrainEpochReturn ==
    /\ pc = "train"
    /\ i = config.train_len
    /\ IF config.train_len = 0
       THEN \* total_loss /= len(self.train_loader) divides by zero
            /\ pc' = "crashed"
            /\ raised' = "train"
            /\ UNCHANGED writer
       ELSE /\ pc' = "save"
            /\ writer' = writer \o
                 <<Scalar("Train loss (epochs)", training_epoch),
                   Scalar("Train CLASS accuracy", training_epoch)>>
            /\ UNCHANGED raised
    /\ UNCHANGED <<runs, config, training_epoch, total_iter, epochs,
                   first_epoch, epoch, i, printed, pass_start, state_dict,
                   files, saves>>

\* loop() storing the index of the next epoch in the checkpoint
SaveCheckpointNextEpoch ==
    /\ pc = "save"
    /\ files' = save_checkpoint(
                   [state_dict |-> state_dict, epoch |-> epoch + 1,
                    total_iter |-> total_iter],
                   FormatName(epoch))
    /\ saves' = Append(saves, [run |-> runs, path |-> FormatName(epoch)])
    /\ pc' = "val"
    /\ i' = 0
    /\ UNCHANGED <<raised, runs, config, training_epoch, total_iter, epochs,
                   first_epoch, epoch, printed, pass_start, state_dict, writer>>

\* loop(): save_checkpoint(...) and the start of val()
SaveCheckpoint ==
    /\ pc = "save"
    /\ files' = save_checkpoint(
                   [state_dict |-> state_dict, epoch |-> epoch,
                    total_iter |-> total_iter],
                   FormatName(epoch))
    /\ saves' = Append(saves, [run |-> runs, path |-> FormatName(epoch)])
    /\ pc' = "val"
    /\ i' = 0
    /\ UNCHANGED <<raised, runs, config, training_epoch, total_iter, epochs,
                   first_epoch, epoch, printed, pass_start, state_dict, writer>>

\* val(): one batch of the for loop
ValBatch ==
    /\ pc = "val"
    /\ i < config.val_len
    /\ i' = i + 1
    /\ UNCHANGED <<pc, raised, runs, config, training_epoch, total_iter,
                   epochs, first_epoch, epoch, printed, pass_start,
                   state_dict, files, saves, writer>>

\* val(): the validation iterator raises instead of giving the next batch
ValRaise ==
    /\ pc = "val"
    /\ i < config.val_len
    /\ pc' = "crashed"
    /\ raised' = "val"
    /\ UNCHANGED <<runs, config, training_epoch, total_iter, epochs,
                   first_epoch, epoch, i, printed, pass_start, state_dict,
                   files, saves, writer>>

\* val(): after the for loop
ValReturn ==
    /\ pc = "val"
    /\ i = config.val_len
    /\ IF config.val_len = 0
       THEN \* total_loss /= len(self.val_loader) divides by zero
            /\ pc' = "crashed"
            /\ raised' = "val"
            /\ UNCHANGED writer
       ELSE /\ pc' = "incr"
            /\ writer' = writer \o
                 <<Scalar("Validation loss", training_epoch),
                   Scalar("Validation CLASS accuracy", training_epoch)>>
            /\ UNCHANGED raised
    /\ UNCHANGED <<runs, config, training_epoch, total_iter, epochs,
                   first_epoch, epoch, i, printed, pass_start, state_dict,
                   files, saves>>

\* loop() over a range that includes its stop value
IncrementOffByOne ==
    /\ pc = "incr"
    /\ training_epoch' = training_epoch + 1
    /\ IF epoch + 1 <= epochs
       THEN /\ epoch' = epoch + 1
            /\ pc' = "train"
            /\ i' = 0
            /\ printed' = 0
            /\ pass_start' = total_iter
       ELSE /\ pc' = "done"
            /\ UNCHANGED <<epoch, i, printed, pass_start>>
    /\ UNCHANGED <<raised, runs, config, total_iter, epochs, first_epoch,
                   state_dict, files, saves, writer>>

\* loop(): self.training_epoch += 1 and the next value of the range
Increment ==
    /\ pc = "incr"
    /\ training_epoch' = training_epoch + 1
    /\ IF epoch + 1 < epochs
       THEN /\ epoch' = epoch + 1
            /\ pc' = "train"
            /\ i' = 0
            /\ printed' = 0
            /\ pass_start' = total_iter
       ELSE /\ pc' = "done"
            /\ UNCHANGED <<epoch, i, printed, pass_start>>
    /\ UNCHANGED <<raised, runs, config, total_iter, epochs, first_epoch,
                   state_dict, files, saves, writer>>

Next ==
    \/ Construct
    \/ LoopStart
    \/ TrainBatch
    \/ TrainRaise
    \/ TrainEpochReturn
    \/ SaveCheckpoint
    \/ ValBatch
    \/ ValRaise
    \/ ValReturn
    \/ Increment

Spec == Init /\ [][Next]_vars

\* ------------------------------------------- one loop() call, long loaders
\* A freshly constructed trainer whose train loader is long enough for the
\* progress line of train_epoch to be printed.
LongConfigs == [epochs : 0..MaxEpochs, model_path : {Absent},
                train_len : (0..MaxBatches) \cup {PrintEvery, PrintEvery + 1},
                val_len : 0..MaxBatches]

InitPass ==
    /\ pc = "constructed"
    /\ raised = "none"
    /\ runs = 1
    /\ config \in LongConfigs
    /\ training_epoch = 0
    /\ total_iter = 0
    /\ epochs = config.epochs
    /\ first_epoch = 0
    /\ epoch = 0
    /\ i = 0
    /\ printed = 0
    /\ pass_start = 0
    /\ state_dict = 0
    /\ files = <<>>
    /\ saves = <<>>
    /\ writer = <<>>

NextPass ==
    \/ LoopStart
    \/ TrainBatch
    \/ TrainRaise
    \/ TrainEpochReturn
    \/ SaveCheckpoint
    \/ ValBatch
    \/ ValRaise
    \/ ValReturn
    \/ Increment

SpecPass == InitPass /\ [][NextPass]_vars

\* ------------------------------------------------- vocabulary of the claims
\* model_path is given: present with a non-empty path
Given(v) == v.t = "str" /\ v.s # <<>>

\* the save_checkpoint calls of run r
SavedBy(r) == SelectSeq(saves, LAMBDA s : s.run = r)

\* number of add_scalar calls of run r with this tag and step
Logged(r, tag, step) ==
    Cardinality({k \in 1..Len(writer) :
                    /\ writer[k].run = r
                    /\ writer[k].tag = tag
                    /\ writer[k].step = step})

\* completed train passes of run r over epoch index e
TrainPasses(r, e) == Logged(r, "Train loss (epochs)", e)

\* epoch indices whose train pass and validation pass both completed, in any run
CompletedEpochs ==
    {e \in 0..MaxEpochs : \E r \in 1..runs :
        TrainPasses(r, e) > 0 /\ Logged(r, "Validation loss", e) > 0}

TypeOK ==
    /\ pc \in {"new", "constructed", "train", "save", "val", "incr", "done", "crashed"}
    /\ raised \in {"none", "train", "val"}
    /\ runs \in 0..MaxRuns
    /\ training_epoch \in Nat
    /\ total_iter \in Nat
    /\ state_dict \in Nat
    /\ i \in Nat
    /\ \A p \in DOMAIN files : files[p].epoch \in Nat /\ Len(p) = NameWidth

\* ---------------------------------------------------------------- claims

\* C1: a trainer resumed from the checkpoint that the first run saved for
\* epoch E, once its loop() has finished, has given every epoch index in
\* 0..epochs-1 exactly one train pass, counting the first run up to that save
\* and the resumed run; epoch E is not trained again.
C1_ResumeNoRepeatNoSkip ==
    (pc = "done" /\ runs = 2 /\ Given(config.model_path)) =>
        LET E == files[config.model_path.s].epoch IN
        \A e \in 0..(epochs - 1) :
            (IF e <= E THEN TrainPasses(1, e) ELSE 0) + TrainPasses(2, e) = 1

\* C2: a loop() call that starts at training_epoch = e0 with epochs = e1 > e0
\* and runs to completion has written exactly e1 - e0 checkpoint files, the
\* ones named by the indices e0 .. e1-1, and leaves training_epoch = e1.
C2_LoopWritesOneFilePerEpoch ==
    (pc = "done" /\ first_epoch < epochs) =>
        LET mine == SavedBy(runs) IN
        /\ Len(mine) = epochs - first_epoch
        /\ \A k \in 1..Len(mine) : mine[k].path = FormatName(first_epoch + k - 1)
        /\ \A e \in first_epoch..(epochs - 1) :
              /\ FormatName(e) \in DOMAIN files
              /\ files[FormatName(e)].epoch = e
        /\ training_epoch = epochs

C2_Witness ==
    /\ pc = "done"
    /\ first_epoch < epochs
    /\ Len(SavedBy(runs)) >= 2

\* C3: after an exception from the train pass or the validation pass of epoch
\* e has propagated out of loop(), no checkpoint file for epoch e exists.
C3_NoCheckpointForUnfinishedEpoch ==
    (pc = "crashed" /\ raised \in {"train", "val"}) =>
        FormatName(epoch) \notin DOMAIN files

\* C4: when the train pass of epoch e raises, the running loop() call has
\* written no checkpoint for e, has not run the validation pass of e, has not
\* incremented training_epoch, the exception has propagated, and the
\* checkpoints the call wrote for its earlier epochs are still there.
C4_TrainFailureWritesNothing ==
    (pc = "crashed" /\ raised = "train") =>
        /\ \A k \in 1..Len(saves) :
              saves[k].run = runs => saves[k].path # FormatName(epoch)
        /\ Logged(runs, "Validation loss", epoch) = 0
        /\ training_epoch = epoch
        /\ \A e \in first_epoch..(epoch - 1) :
              /\ FormatName(e) \in DOMAIN files
              /\ \E k \in 1..Len(saves) :
                    saves[k].run = runs /\ saves[k].path = FormatName(e)

C4_Witness ==
    /\ pc = "crashed"
    /\ raised = "train"
    /\ i >= 1
    /\ i < config.train_len
    /\ epoch > first_epoch

\* C5: a checkpoint file, once written, is never written again, never
\* changed and never deleted.
C5_CheckpointNeverRewritten ==
    [][/\ \A p \in DOMAIN files : p \in DOMAIN files' /\ files'[p] = files[p]
       /\ Len(saves') > Len(saves) =>
             \A k \in 1..Len(saves) : saves[k].path # saves'[Len(saves')].path
      ]_vars

\* C6: at every epoch boundary of loop() (before the first iteration, between
\* iterations, at termination), also in a resumed trainer, training_epoch is
\* the number of epochs whose train pass and validation pass both completed.
C6_TrainingEpochCountsCompletedCycles ==
    (pc \in {"constructed", "done"} \/ (pc = "train" /\ i = 0)) =>
        training_epoch = Cardinality(CompletedEpochs)

\* C7: during and after a train pass total_iter is its value at the start of
\* the pass plus the number of batches consumed, the j-th batch of the pass is
\* logged at step start + j - 1, whether or not a progress line was printed,
\* and the validation pass leaves total_iter where the train pass left it.
C7_TotalIterCountsBatches ==
    /\ pc \in {"train", "save"} =>
          LET off == IF pc = "save" THEN 2 ELSE 0 IN
          /\ total_iter = pass_start + i
          /\ \A j \in 1..i :
                writer[Len(writer) - off - i + j]
                    = Scalar("Train loss (iterations)", pass_start + j - 1)
    /\ pc = "save" => i = config.train_len
    /\ pc \in {"val", "incr"} => total_iter = pass_start + config.train_len

C7_Witness ==
    /\ pc = "save"
    /\ printed >= 1
    /\ i > PrintEvery
    /\ pass_start > 0

\* C8 as stated: total_iter never decreases from one state to the next, along
\* any history of runs followed by runs resumed from a checkpoint.
C8_TotalIterNeverDecreases ==
    [][(pc' = "constructed" /\ ~Given(config'.model_path))
       \/ total_iter' >= total_iter]_vars

\* the add_scalar call just made, if it logs a batch, uses a step above every
\* per-batch step the same run logged before
NewStepIsFresh ==
    (/\ Len(writer') = Len(writer) + 1
     /\ writer'[Len(writer')].tag = "Train loss (iterations)") =>
        \A k \in 1..Len(writer) :
            (/\ writer[k].run = writer'[Len(writer')].run
             /\ writer[k].tag = "Train loss (iterations)")
            => writer[k].step < writer'[Len(writer')].step

\* C8 amended: total_iter never decreases during the life of one trainer, so
\* one run never logs two batches at the same step; a resumed trainer starts at
\* the total_iter stored in the checkpoint it loads.
C8_TotalIterMonotoneWithinRun ==
    [][/\ runs' = runs => total_iter' >= total_iter
       /\ (runs' # runs /\ Given(config'.model_path)) =>
             total_iter' = files[config'.model_path.s].total_iter
       /\ NewStepIsFresh
      ]_vars

C8_Witness ==
    /\ runs >= 2
    /\ Given(config.model_path)
    /\ pc = "train"
    /\ i >= 1
    /\ epoch > first_epoch

\* C9: after construction training_epoch and total_iter are both 0 when
\* model_path is absent or falsy, and are the epoch index and the step count
\* stored in the checkpoint when model_path is given.
C9_ConstructionCounters ==
    pc = "constructed" =>
        IF Given(config.model_path)
        THEN /\ training_epoch = files[config.model_path.s].epoch
             /\ total_iter = files[config.model_path.s].total_iter
        ELSE training_epoch = 0 /\ total_iter = 0

C9_Witness ==
    /\ pc = "constructed"
    /\ Given(config.model_path)
    /\ training_epoch >= 1
    /\ total_iter >= 2

\* C10: inside an iteration of loop() epoch = training_epoch; the checkpoint
\* of the cycle is named by that index, stores that index and the total_iter
\* reached by the train pass, is written before the validation pass, and the
\* train and validation metrics of the cycle are logged at that index.
C10_OneIndexPerCycle ==
    /\ pc \in {"train", "save", "val", "incr"} => epoch = training_epoch
    /\ pc = "save" =>
          /\ writer[Len(writer) - 1] = Scalar("Train loss (epochs)", epoch)
          /\ writer[Len(writer)] = Scalar("Train CLASS accuracy", epoch)
    /\ pc \in {"val", "incr"} =>
          /\ saves[Len(saves)] = [run |-> runs, path |-> FormatName(epoch)]
          /\ files[FormatName(epoch)].epoch = epoch
          /\ files[FormatName(epoch)].total_iter = pass_start + config.train_len
          /\ files[FormatName(epoch)].total_iter = total_iter
    /\ pc = "val" =>
          /\ writer[Len(writer)] = Scalar("Train CLASS accuracy", epoch)
          /\ Logged(runs, "Validation loss", epoch) = 0
    /\ pc = "incr" =>
          /\ writer[Len(writer) - 3] = Scalar("Train loss (epochs)", epoch)
          /\ writer[Len(writer) - 2] = Scalar("Train CLASS accuracy", epoch)
          /\ writer[Len(writer) - 1] = Scalar("Validation loss", epoch)
          /\ writer[Len(writer)] = Scalar("Validation CLASS accuracy", epoch)

C10_Witness ==
    /\ pc = "incr"
    /\ epoch >= 1
    /\ runs >= 2
    /\ config.train_len >= 2
====
